---- MODULE Spec2Model ----
(***************************************************************************)
(* Model of password.py: the module's top-level code, build_alphabet,      *)
(* secure_shuffle, generate_password and main.                             *)
(*                                                                         *)
(* A character is a one-character string, a list of characters and a       *)
(* password are sequences of characters.  generate_password is modelled    *)
(* statement by statement (pc), so that the order of its checks and of its *)
(* draws from the secure randomness source is visible.                     *)
(***************************************************************************)
EXTENDS Integers, Sequences, FiniteSets

VARIABLES
    pc,              \* position of the running code
    args,            \* the command line, as argparse's Namespace (main)
    HAS_PYPERCLIP,   \* _HAS_PYPERCLIP, set by the import at module level
    config,          \* the keyword arguments of the generate_password call
    alphabet,        \* generate_password: alphabet
    parts,           \* generate_password: parts
    k,               \* generate_password: index of `part` in `for part in parts`
    required_chars,  \* generate_password: required_chars
    filler,          \* generate_password: the list comprehension of line 81
    result_chars,    \* generate_password: result_chars
    draws,           \* calls made to the secure randomness source in this call
    exception,       \* the exception in flight, "none" when there is none
    result,          \* value returned by generate_password, Unset before
    caller,          \* who called generate_password: "main" or "direct"
    i,               \* main: number of loop iterations started
    pwd,             \* main: local variable pwd, Unset while unbound
    stdout,          \* lines printed to standard output
    stderr,          \* lines printed to standard error
    clipboard,       \* what pyperclip.copy received, Unset when nothing
    exit_status      \* process exit status, Running while the process runs

gpvars == <<config, alphabet, parts, k, required_chars, filler, result_chars,
            draws, result>>
mainvars == <<args, HAS_PYPERCLIP, i, pwd, stdout, stderr, clipboard, exit_status>>
vars == <<pc, exception, caller, gpvars, mainvars>>

---------------------------------------------------------------------------
(* Bounds of the model *)

\* largest requested length of a direct generate_password call
MaxLen == 4
\* requested lengths go down to -MaxNeg
MaxNeg == 1
\* largest --length of a modelled program run
MainMaxLen == 2
\* largest --number of a modelled program run (the smallest is -1)
MaxNumber == 1

---------------------------------------------------------------------------
(* Module-level constants *)

LOWER == << "a","b","c","d","e","f","g","h","i","j","k","l","m",
            "n","o","p","q","r","s","t","u","v","w","x","y","z" >>
UPPER == << "A","B","C","D","E","F","G","H","I","J","K","L","M",
            "N","O","P","Q","R","S","T","U","V","W","X","Y","Z" >>
DIGITS == << "0","1","2","3","4","5","6","7","8","9" >>
\* string.punctuation; its backtick, which a TLA+ string cannot hold, is
\* written "BACKTICK" and stands for that one character
PUNCT == << "!","\"","#","$","%","&","'","(",")","*","+",",","-",".","/",":",
            ";","<",">","=","?","@","[","\\","]","^","_","BACKTICK","{","|","}","~" >>
AMBIGUOUS == { "0", "O", "o", "I", "l", "1" }

Unset == << "<unset>" >>
Running == 0 - 1

---------------------------------------------------------------------------
(* Helpers on sequences *)

\* [c for c in s if c not in drop]
RECURSIVE Without(_, _)
Without(s, drop) ==
    IF s = << >> THEN << >>
    ELSE (IF Head(s) \in drop THEN << >> ELSE << Head(s) >>) \o Without(Tail(s), drop)

\* alphabet.extend(p) for p in parts
RECURSIVE Extend(_)
Extend(ps) == IF ps = << >> THEN << >> ELSE Head(ps) \o Extend(Tail(ps))

---------------------------------------------------------------------------
(* build_alphabet *)

\* variant: the punctuation class is never appended to parts
build_parts_no_punct(c) ==
    (IF c.use_lower  THEN << LOWER >>  ELSE << >>) \o
    (IF c.use_upper  THEN << UPPER >>  ELSE << >>) \o
    (IF c.use_digits THEN << DIGITS >> ELSE << >>)

\* lines 33-41
build_parts(c) ==
    (IF c.use_lower  THEN << LOWER >>  ELSE << >>) \o
    (IF c.use_upper  THEN << UPPER >>  ELSE << >>) \o
    (IF c.use_digits THEN << DIGITS >> ELSE << >>) \o
    (IF c.use_punct  THEN << PUNCT >>  ELSE << >>)

\* variant: the combined alphabet is left unfiltered
filter_alphabet_off(a, exclude_ambiguous) == a

\* lines 47-48
filter_alphabet(a, exclude_ambiguous) ==
    IF exclude_ambiguous THEN Without(a, AMBIGUOUS) ELSE a

\* variant: an empty alphabet is replaced by the lowercase letters
build_alphabet_default(c) ==
    LET ps == build_parts(c)
        a  == filter_alphabet(Extend(ps), c.exclude_ambiguous)
    IN  [alphabet |-> IF a = << >> THEN LOWER ELSE a, parts |-> ps, raises |-> FALSE]

\* [alphabet, parts], or raises: ValueError("Alfabeto vazio...")
build_alphabet(c) ==
    LET ps == build_parts(c)
        a  == filter_alphabet(Extend(ps), c.exclude_ambiguous)
    IN  [alphabet |-> a, parts |-> ps, raises |-> (a = << >>)]

---------------------------------------------------------------------------
(* The secure randomness source *)

\* The characters the modelled source returns: every ambiguous character and
\* the first non-ambiguous character of each class table.  Characters of one
\* class that agree on being ambiguous are treated alike by the code.
Sampled ==
    AMBIGUOUS \cup { Head(Without(t, AMBIGUOUS)) : t \in { LOWER, UPPER, DIGITS, PUNCT } }

\* secrets.choice(seq): the characters it may return (seq is non-empty)
choice(seq) == { seq[n] : n \in { m \in 1..Len(seq) : seq[m] \in Sampled } }

\* lst without its n-th element
Remove(lst, n) == SubSeq(lst, 1, n - 1) \o SubSeq(lst, n + 1, Len(lst))

\* every order of the elements of lst
RECURSIVE Orders(_)
Orders(lst) ==
    IF lst = << >> THEN { << >> }
    ELSE UNION { { << lst[n] >> \o r : r \in Orders(Remove(lst, n)) } : n \in 1..Len(lst) }

\* secure_shuffle(lst): the orders rand.shuffle may leave lst in
secure_shuffle(lst) == Orders(lst)

---------------------------------------------------------------------------
(* generate_password, statement by statement *)

\* variant: length 0 passes the check
invalid_length_negative(length) == length < 0

\* variant: the check of the length is missing
invalid_length_missing(length) == FALSE

\* line 63
invalid_length(length) == length < 1

\* line 71
filtered(part, exclude_ambiguous) ==
    IF exclude_ambiguous THEN Without(part, AMBIGUOUS) ELSE part

\* variant: one mandatory character too many is let through
too_small_off_by_one(required, length) == Len(required) > length + 1

\* line 75
too_small(required, length) == Len(required) > length

\* variant: one filler character too many
remaining_plus_one(length, required) == length - Len(required) + 1

\* line 80
remaining(length, required) == length - Len(required)

\* line 81, the concatenation
assemble(required, fill) == required \o fill

Raise(e) ==
    /\ exception' = e
    /\ pc' = "gp_raised"

\* lines 63-64
GpCheckLength ==
    /\ pc = "gp_check_length"
    /\ IF invalid_length(config.length)
       THEN Raise("InvalidLength")
       ELSE pc' = "gp_build" /\ UNCHANGED exception
    /\ UNCHANGED <<caller, gpvars, mainvars>>

\* line 66 (build_alphabet, lines 32-53) and line 69
GpBuild ==
    /\ pc = "gp_build"
    /\ LET b == build_alphabet(config)
       IN  IF b.raises
           THEN /\ Raise("EmptyAlphabet")
                /\ UNCHANGED <<alphabet, parts, k, required_chars>>
           ELSE /\ alphabet' = b.alphabet
                /\ parts' = b.parts
                /\ required_chars' = << >>
                /\ k' = 1
                /\ pc' = "gp_required"
                /\ UNCHANGED exception
    /\ UNCHANGED <<caller, config, filler, result_chars, draws, result, mainvars>>

\* lines 70-73, one iteration of the loop
GpRequired ==
    /\ pc = "gp_required"
    /\ k <= Len(parts)
    /\ LET f == filtered(parts[k], config.exclude_ambiguous)
       IN  IF f # << >>
           THEN \E c \in choice(f) :
                   /\ required_chars' = Append(required_chars, c)
                   /\ draws' = draws + 1
           ELSE UNCHANGED <<required_chars, draws>>
    /\ k' = k + 1
    /\ UNCHANGED <<pc, exception, caller, config, alphabet, parts, filler,
                   result_chars, result, mainvars>>

\* lines 75-80, after the loop
GpCheckRequired ==
    /\ pc = "gp_required"
    /\ k > Len(parts)
    /\ IF too_small(required_chars, config.length)
       THEN Raise("LengthTooSmall") /\ UNCHANGED filler
       ELSE pc' = "gp_fill" /\ filler' = << >> /\ UNCHANGED exception
    /\ UNCHANGED <<caller, config, alphabet, parts, k, required_chars,
                   result_chars, draws, result, mainvars>>

\* line 81, one element of the list comprehension
GpFill ==
    /\ pc = "gp_fill"
    /\ Len(filler) < remaining(config.length, required_chars)
    /\ \E c \in choice(alphabet) : filler' = Append(filler, c)
    /\ draws' = draws + 1
    /\ UNCHANGED <<pc, exception, caller, config, alphabet, parts, k,
                   required_chars, result_chars, result, mainvars>>

\* line 81, the assignment to result_chars
GpAssemble ==
    /\ pc = "gp_fill"
    /\ Len(filler) >= remaining(config.length, required_chars)
    /\ result_chars' = assemble(required_chars, filler)
    /\ pc' = "gp_shuffle"
    /\ UNCHANGED <<exception, caller, config, alphabet, parts, k,
                   required_chars, filler, draws, result, mainvars>>

\* lines 84-86 (secure_shuffle, lines 55-59, and the join)
GpShuffle ==
    /\ pc = "gp_shuffle"
    /\ \E s \in secure_shuffle(result_chars) :
          /\ result_chars' = s
          /\ result' = s
    /\ draws' = draws + 1
    /\ pc' = "gp_returned"
    /\ UNCHANGED <<exception, caller, config, alphabet, parts, k,
                   required_chars, filler, mainvars>>

generate_password ==
    \/ GpCheckLength
    \/ GpBuild
    \/ GpRequired
    \/ GpCheckRequired
    \/ GpFill
    \/ GpAssemble
    \/ GpShuffle

---------------------------------------------------------------------------
(* A direct call of generate_password with any keyword arguments *)

Configs(lengths) ==
    [ length : lengths, use_lower : BOOLEAN, use_upper : BOOLEAN,
      use_digits : BOOLEAN, use_punct : BOOLEAN, exclude_ambiguous : BOOLEAN ]

NoArgs == [ length |-> 16, number |-> 1, no_lower |-> FALSE, no_upper |-> FALSE,
            no_digits |-> FALSE, no_punct |-> FALSE, allow_ambiguous |-> FALSE,
            copy |-> FALSE ]

CallState(c, from) ==
    /\ config = c
    /\ caller = from
    /\ alphabet = << >>
    /\ parts = << >>
    /\ k = 0
    /\ required_chars = << >>
    /\ filler = << >>
    /\ result_chars = << >>
    /\ draws = 0
    /\ result = Unset

InitGen ==
    /\ pc = "gp_check_length"
    /\ exception = "none"
    /\ \E c \in Configs((0 - MaxNeg)..MaxLen) : CallState(c, "direct")
    /\ args = NoArgs
    /\ HAS_PYPERCLIP = FALSE
    /\ i = 0
    /\ pwd = Unset
    /\ stdout = << >>
    /\ stderr = << >>
    /\ clipboard = Unset
    /\ exit_status = Running

NextGen == generate_password

SpecGen == InitGen /\ [][NextGen]_vars

---------------------------------------------------------------------------
(* main *)

\* the exceptions that are instances of ValueError (lines 51, 64, 77)
ValueErrors == { "InvalidLength", "EmptyAlphabet", "LengthTooSmall" }

\* lines 100-104 and the keyword arguments of lines 108-115
call_config(a) ==
    [ length |-> a.length,
      use_lower |-> ~a.no_lower, use_upper |-> ~a.no_upper,
      use_digits |-> ~a.no_digits, use_punct |-> ~a.no_punct,
      exclude_ambiguous |-> ~a.allow_ambiguous ]

MsgCopied == << "\nUltima senha copiada para a area de transferencia." >>
MsgNoPyperclip == << "\npyperclip nao encontrado: instale com pip install pyperclip" >>
MsgErro(e) == << "Erro:", e >>
Traceback(e) == << "Traceback (most recent call last):", e >>

\* line 107: range(args.number) has another element
loop_continues(n, number) == n < number

\* lines 107-115: the next iteration calls generate_password
MainCall ==
    /\ pc = "main_loop"
    /\ loop_continues(i, args.number)
    /\ i' = i + 1
    /\ config' = call_config(args)
    /\ caller' = "main"
    /\ alphabet' = << >>
    /\ parts' = << >>
    /\ k' = 0
    /\ required_chars' = << >>
    /\ filler' = << >>
    /\ result_chars' = << >>
    /\ draws' = 0
    /\ result' = Unset
    /\ pc' = "gp_check_length"
    /\ UNCHANGED <<exception, args, HAS_PYPERCLIP, pwd, stdout, stderr,
                   clipboard, exit_status>>

\* lines 108 and 116: the call returned; pwd is bound and printed
MainPrint ==
    /\ pc = "gp_returned"
    /\ caller = "main"
    /\ pwd' = result
    /\ stdout' = Append(stdout, result)
    /\ pc' = "main_loop"
    /\ UNCHANGED <<exception, caller, gpvars, args, HAS_PYPERCLIP, i, stderr,
                   clipboard, exit_status>>

\* lines 117-122 after the loop, then the return of main and the normal end
\* of the process; reading the unbound local pwd raises UnboundLocalError,
\* which `except ValueError` does not catch: traceback, exit status 1
MainAfterLoop ==
    /\ pc = "main_loop"
    /\ ~loop_continues(i, args.number)
    /\ pc' = "exited"
    /\ IF ~args.copy
       THEN /\ exit_status' = 0
            /\ UNCHANGED <<exception, stdout, stderr, clipboard>>
       ELSE IF ~HAS_PYPERCLIP
       THEN /\ stdout' = Append(stdout, MsgNoPyperclip)
            /\ exit_status' = 0
            /\ UNCHANGED <<exception, stderr, clipboard>>
       ELSE IF pwd = Unset
       THEN /\ exception' = "UnboundLocalError"
            /\ stderr' = Append(stderr, Traceback("UnboundLocalError"))
            /\ exit_status' = 1
            /\ UNCHANGED <<stdout, clipboard>>
       ELSE /\ clipboard' = pwd
            /\ stdout' = Append(stdout, MsgCopied)
            /\ exit_status' = 0
            /\ UNCHANGED <<exception, stderr>>
    /\ UNCHANGED <<caller, gpvars, args, HAS_PYPERCLIP, i, pwd>>

\* variant: the try statement is inside the loop, the error is reported
\* and the loop goes on
MainExcept_Skip ==
    /\ pc = "gp_raised"
    /\ caller = "main"
    /\ exception \in ValueErrors
    /\ stderr' = Append(stderr, MsgErro(exception))
    /\ pc' = "main_loop"
    /\ UNCHANGED <<exception, caller, gpvars, args, HAS_PYPERCLIP, i, pwd,
                   stdout, clipboard, exit_status>>

\* lines 123-125: a ValueError of the call ends the loop and the process
MainExcept ==
    /\ pc = "gp_raised"
    /\ caller = "main"
    /\ exception \in ValueErrors
    /\ stderr' = Append(stderr, MsgErro(exception))
    /\ exit_status' = 2
    /\ pc' = "exited"
    /\ UNCHANGED <<exception, caller, gpvars, args, HAS_PYPERCLIP, i, pwd,
                   stdout, clipboard>>

main == MainCall \/ MainPrint \/ MainAfterLoop \/ MainExcept

CommandLines ==
    [ length : (0 - MaxNeg)..MainMaxLen, number : (0 - 1)..MaxNumber,
      no_lower : BOOLEAN, no_upper : BOOLEAN, no_digits : BOOLEAN,
      no_punct : BOOLEAN, allow_ambiguous : BOOLEAN, copy : BOOLEAN ]

ProcessStart ==
    /\ exception = "none"
    /\ args \in CommandLines
    /\ CallState(call_config(NoArgs), "none")
    /\ i = 0
    /\ pwd = Unset
    /\ stdout = << >>
    /\ stderr = << >>
    /\ clipboard = Unset
    /\ exit_status = Running

\* main() is entered, with the module loaded
InitMain ==
    /\ pc = "main_loop"
    /\ HAS_PYPERCLIP \in BOOLEAN
    /\ ProcessStart

NextMain == main \/ generate_password

SpecMain == InitMain /\ [][NextMain]_vars

---------------------------------------------------------------------------
(* The module's top-level code: a run of `python password.py ...` *)

\* the names bound in the module's globals when line 127 runs (lines 11-88
\* and the names the interpreter sets), and the builtins never hold _name_
ModuleGlobals ==
    { "__name__", "__doc__", "__file__", "__builtins__",
      "argparse", "string", "secrets", "sys", "pyperclip", "_HAS_PYPERCLIP",
      "LOWER", "UPPER", "DIGITS", "PUNCT", "AMBIGUOUS",
      "build_alphabet", "secure_shuffle", "generate_password", "main" }

\* lines 17-21: pyperclip is importable or it is not
ModuleImport ==
    /\ pc = "module_import"
    /\ HAS_PYPERCLIP' \in BOOLEAN
    /\ pc' = "module_guard"
    /\ UNCHANGED <<exception, caller, gpvars, args, i, pwd, stdout, stderr,
                   clipboard, exit_status>>

\* lines 127-128: `if _name_ == "_main_": main()`; the name _name_ is looked
\* up first, and a name that is not bound raises NameError at module level:
\* traceback, exit status 1
ModuleGuard ==
    /\ pc = "module_guard"
    /\ IF "_name_" \in ModuleGlobals
       THEN /\ pc' = "main_loop"
            /\ UNCHANGED <<exception, stderr, exit_status>>
       ELSE /\ exception' = "NameError"
            /\ stderr' = Append(stderr, Traceback("NameError"))
            /\ exit_status' = 1
            /\ pc' = "exited"
    /\ UNCHANGED <<caller, gpvars, args, HAS_PYPERCLIP, i, pwd, stdout, clipboard>>

Init ==
    /\ pc = "module_import"
    /\ HAS_PYPERCLIP = FALSE
    /\ ProcessStart

\* main's actions are left out of Next: no run reaches pc = "main_loop"
Next == ModuleImport \/ ModuleGuard

Spec == Init /\ [][Next]_vars

---------------------------------------------------------------------------
(* Vocabulary of the properties, stated on the configuration alone *)

Chars(s) == { s[n] : n \in 1..Len(s) }

EnabledClasses(c) ==
    (IF c.use_lower  THEN { Chars(LOWER) }  ELSE {}) \cup
    (IF c.use_upper  THEN { Chars(UPPER) }  ELSE {}) \cup
    (IF c.use_digits THEN { Chars(DIGITS) } ELSE {}) \cup
    (IF c.use_punct  THEN { Chars(PUNCT) }  ELSE {})

\* the enabled classes whose filtered subset is not empty
MandatoryClasses(c) ==
    { cls \in EnabledClasses(c) :
        IF c.exclude_ambiguous THEN cls \ AMBIGUOUS # {} ELSE cls # {} }

AllDisabled(c) == ~c.use_lower /\ ~c.use_upper /\ ~c.use_digits /\ ~c.use_punct

ValidConfig(c) ==
    /\ c.length >= 1
    /\ ~AllDisabled(c)
    /\ c.length >= Cardinality(EnabledClasses(c))

Finished == pc \in { "gp_returned", "gp_raised" }

IsPassword(line) == \A n \in 1..Len(line) : line[n] \in Chars(LOWER \o UPPER \o DIGITS \o PUNCT)

---------------------------------------------------------------------------
(* Properties of generate_password, checked under SpecGen *)

\* C1: a call with a valid configuration (length >= 1, a class enabled,
\* length >= number of enabled classes) ends by returning, and the password
\* it returns has exactly the requested length, whatever was drawn.
C1_ExactLength ==
    /\ (Finished /\ ValidConfig(config)) =>
          (pc = "gp_returned" /\ exception = "none")
    /\ (pc = "gp_returned" /\ ValidConfig(config)) =>
          (result # Unset /\ Len(result) = config.length)

C1_Witness ==
    /\ pc = "gp_returned"
    /\ ValidConfig(config)
    /\ Len(required_chars) >= 2
    /\ Len(filler) >= 1
    /\ result # assemble(required_chars, filler)

\* C2: with exclude_ambiguous set, no mandatory character, no filler
\* character and no character of the returned password is ambiguous.
C2_NoAmbiguous ==
    config.exclude_ambiguous =>
        /\ Chars(required_chars) \cap AMBIGUOUS = {}
        /\ Chars(filler) \cap AMBIGUOUS = {}
        /\ (pc = "gp_returned" => Chars(result) \cap AMBIGUOUS = {})

C2_Witness ==
    /\ pc = "gp_returned"
    /\ config.exclude_ambiguous
    /\ config.use_digits /\ config.use_lower
    /\ Len(required_chars) = 2
    /\ Len(filler) >= 2

\* C3: when a class is enabled and the length is at least the number of
\* enabled classes with a non-empty filtered subset, the returned password
\* holds a character of each such class, whatever was drawn and however the
\* shuffle ordered it.
C3_Coverage ==
    (/\ pc = "gp_returned"
     /\ ~AllDisabled(config)
     /\ config.length >= Cardinality(MandatoryClasses(config)))
        => \A cls \in MandatoryClasses(config) : Chars(result) \cap cls # {}

C3_Witness ==
    /\ pc = "gp_returned"
    /\ Cardinality(MandatoryClasses(config)) = 3
    /\ Len(filler) = 1
    /\ result[1] = filler[1]
    /\ result[Len(result)] = required_chars[1]

\* C4: a call with length 0 or negative raises InvalidLength and returns no
\* password, whatever the class flags and exclude_ambiguous are.
C4_InvalidLength ==
    config.length < 1 =>
        /\ result = Unset
        /\ pc \in { "gp_check_length", "gp_raised" }
        /\ (pc = "gp_raised" => exception = "InvalidLength")

C4_Witness ==
    /\ pc = "gp_raised"
    /\ exception = "InvalidLength"
    /\ config.length = 0
    /\ AllDisabled(config)

\* C5 as stated: a call with all four classes disabled raises EmptyAlphabet,
\* whatever the length is.
C5_Original ==
    (Finished /\ AllDisabled(config)) =>
        (pc = "gp_raised" /\ exception = "EmptyAlphabet")

\* C5, amended: a call with all four classes disabled and length >= 1 raises
\* EmptyAlphabet, whatever exclude_ambiguous is; it draws nothing, returns
\* nothing and no alphabet is substituted.
C5_EmptyAlphabet ==
    (AllDisabled(config) /\ config.length >= 1) =>
        /\ pc \in { "gp_check_length", "gp_build", "gp_raised" }
        /\ (pc = "gp_raised" => exception = "EmptyAlphabet")
        /\ alphabet = << >>
        /\ result = Unset

C5_Witness ==
    /\ pc = "gp_raised"
    /\ exception = "EmptyAlphabet"
    /\ AllDisabled(config)
    /\ config.length = MaxLen

\* C6: a call with length >= 1 and length smaller than the number of
\* mandatory characters raises LengthTooSmall; it never fills, shuffles or
\* returns a password.
C6_LengthTooSmall ==
    (config.length >= 1 /\ config.length < Cardinality(MandatoryClasses(config))) =>
        /\ pc \in { "gp_check_length", "gp_build", "gp_required", "gp_raised" }
        /\ (pc = "gp_raised" => exception = "LengthTooSmall")
        /\ result = Unset

C6_Witness ==
    /\ pc = "gp_raised"
    /\ exception = "LengthTooSmall"
    /\ Cardinality(EnabledClasses(config)) = 4
    /\ config.length = 2

\* C9 as stated: whenever a call ends in an error, no draw from the secure
\* randomness source has happened.
C9_Original == pc = "gp_raised" => draws = 0

\* C9, amended: InvalidLength and EmptyAlphabet are raised before any draw,
\* and every call with length < 1 ends in InvalidLength; LengthTooSmall is
\* raised after the mandatory draws, one per enabled class with a non-empty
\* filtered subset, and before any filler draw or shuffle.
C9_ErrorsAndDraws ==
    pc = "gp_raised" =>
        /\ exception \in ValueErrors
        /\ (config.length < 1 => exception = "InvalidLength")
        /\ (exception \in { "InvalidLength", "EmptyAlphabet" } => draws = 0)
        /\ (exception = "LengthTooSmall" =>
               /\ draws = Cardinality(MandatoryClasses(config))
               /\ draws = Len(required_chars)
               /\ filler = << >>
               /\ result_chars = << >>)

C9_Witness ==
    /\ pc = "gp_raised"
    /\ exception = "LengthTooSmall"
    /\ draws = 3
    /\ config.length = 2

---------------------------------------------------------------------------
(* Properties of a program run *)

PrintedPasswords == SelectSeq(stdout, IsPassword)

ValidRun(a) == ValidConfig(call_config(a)) /\ a.number >= 0

\* C7, checked under Spec: a run with a valid configuration and batch count
\* N prints exactly N passwords, one per line, each of the requested
\* length, and ends without an error status.
C7_PrintsN ==
    (pc = "exited" /\ ValidRun(args)) =>
        /\ exit_status = 0
        /\ stderr = << >>
        /\ Len(PrintedPasswords) = args.number
        /\ \A n \in 1..Len(PrintedPasswords) : Len(PrintedPasswords[n]) = args.length

C10_ClipboardNeverFails ==
    (pc = "exited" /\ args.copy /\ exception \notin ValueErrors) =>
        /\ exit_status = 0
        /\ stderr = << >>
        /\ (clipboard # Unset =>
               /\ PrintedPasswords # << >>
               /\ clipboard = PrintedPasswords[Len(PrintedPasswords)])
        /\ (PrintedPasswords = << >> => clipboard = Unset)
        /\ (~HAS_PYPERCLIP => stdout = Append(PrintedPasswords, MsgNoPyperclip))

====
